---------------------------- MODULE Spec2Model ----------------------------
(* A model of src/components/utils/evaluate-math-expression-simple.ts:     *)
(* the Guard (evaluateMathExpressionSimple), the Lexer (tokenize) and the  *)
(* recursive-descent Parser/Evaluator (parseExpression and its closures).  *)
(*                                                                         *)
(* One behaviour is one call of evaluateMathExpressionSimple.  A string is *)
(* a sequence of one-character strings.  A JavaScript number is a record   *)
(* [k, s, n, d]: k = "fin" is the signed rational s * n / d in lowest      *)
(* terms (n = 0 is the IEEE zero of sign s), k = "inf" the infinity of     *)
(* sign s, k = "nan" NaN.  The arithmetic follows IEEE-754 on signs,       *)
(* zeros, infinities and NaN; finite results are kept exact (the rounding  *)
(* of a double to 53 bits is not modelled).                                *)
EXTENDS Integers, Sequences, FiniteSets, TLC

(***************************************************************************)
(* Numbers                                                                 *)
(***************************************************************************)
RECURSIVE GCD(_, _)
GCD(a, b) == IF b = 0 THEN a ELSE GCD(b, a % b)

Fin(s, n, d) ==
    IF n = 0 THEN [k |-> "fin", s |-> s, n |-> 0, d |-> 1]
    ELSE LET g == GCD(n, d) IN [k |-> "fin", s |-> s, n |-> n \div g, d |-> d \div g]

Num(n) == Fin(1, n, 1)

Infinity(s) == [k |-> "inf", s |-> s, n |-> 0, d |-> 1]

NaN == [k |-> "nan", s |-> 1, n |-> 0, d |-> 1]

\* the JavaScript value undefined
Undefined == [k |-> "undefined", s |-> 1, n |-> 0, d |-> 1]

IsZero(x) == x.k = "fin" /\ x.n = 0

\* unary minus: flips the sign, also of a zero and of an infinity
FNeg(x) == IF x.k = "nan" THEN NaN ELSE [x EXCEPT !.s = 0 - x.s]

\* x + y
FAdd(x, y) ==
    IF x.k = "nan" \/ y.k = "nan" THEN NaN
    ELSE IF x.k = "inf" /\ y.k = "inf" THEN (IF x.s = y.s THEN x ELSE NaN)
    ELSE IF x.k = "inf" THEN x
    ELSE IF y.k = "inf" THEN y
    ELSE LET t == x.s * x.n * y.d + y.s * y.n * x.d IN
         IF t = 0 THEN Fin(IF x.s = -1 /\ y.s = -1 THEN -1 ELSE 1, 0, 1)
         ELSE IF t > 0 THEN Fin(1, t, x.d * y.d)
         ELSE Fin(-1, 0 - t, x.d * y.d)

\* x - y
FSub(x, y) == FAdd(x, FNeg(y))

\* x * y
FMul(x, y) ==
    IF x.k = "nan" \/ y.k = "nan" THEN NaN
    ELSE IF x.k = "inf" \/ y.k = "inf"
         THEN (IF IsZero(x) \/ IsZero(y) THEN NaN ELSE Infinity(x.s * y.s))
    ELSE Fin(x.s * y.s, x.n * y.n, x.d * y.d)

\* x / y: a zero divisor gives an infinity, or NaN for 0 / 0
FDiv(x, y) ==
    IF x.k = "nan" \/ y.k = "nan" THEN NaN
    ELSE IF x.k = "inf" THEN (IF y.k = "inf" THEN NaN ELSE Infinity(x.s * y.s))
    ELSE IF y.k = "inf" THEN Fin(x.s * y.s, 0, 1)
    ELSE IF y.n = 0 THEN (IF x.n = 0 THEN NaN ELSE Infinity(x.s * y.s))
    ELSE Fin(x.s * y.s, x.n * y.d, x.d * y.n)

IsFiniteAlways(x) == TRUE

\* Number.isFinite
IsFinite(x) == x.k = "fin"

(***************************************************************************)
(* Characters                                                              *)
(***************************************************************************)
\* the characters \s matches, as far as the model's inputs use them
WhiteSpace == {" ", "\t", "\n", "\r"}

\* \d
Digits == {"0", "1", "2", "3", "4", "5", "6", "7", "8", "9"}

\* [+\-*/%]
Operators == {"+", "-", "*", "/", "%"}

Parens == {"(", ")"}

DigitVal(c) ==
    CASE c = "0" -> 0 [] c = "1" -> 1 [] c = "2" -> 2 [] c = "3" -> 3
      [] c = "4" -> 4 [] c = "5" -> 5 [] c = "6" -> 6 [] c = "7" -> 7
      [] c = "8" -> 8 [] c = "9" -> 9

Min(S) == CHOOSE x \in S : \A y \in S : x <= y

Max(S) == CHOOSE x \in S : \A y \in S : y <= x

\* String.prototype.trim: from the first to the last character that is not
\* white space
Trim(s) ==
    LET keep == {j \in 1 .. Len(s) : s[j] \notin WhiteSpace} IN
    IF keep = {} THEN <<>> ELSE SubSeq(s, Min(keep), Max(keep))

RECURSIVE Pow10(_)
Pow10(k) == IF k = 0 THEN 1 ELSE 10 * Pow10(k - 1)

\* the number a string of digits writes
RECURSIVE DecValue(_)
DecValue(ds) ==
    IF ds = <<>> THEN 0
    ELSE DecValue(SubSeq(ds, 1, Len(ds) - 1)) * 10 + DigitVal(ds[Len(ds)])

\* ds without the zeros it starts with
DropLeadingZeros(ds) ==
    LET nz == {j \in 1 .. Len(ds) : ds[j] # "0"} IN
    IF nz = {} THEN <<>> ELSE SubSeq(ds, Min(nz), Len(ds))

\* ds without the zeros it ends with
DropTrailingZeros(ds) ==
    LET nz == {j \in 1 .. Len(ds) : ds[j] # "0"} IN
    IF nz = {} THEN <<>> ELSE SubSeq(ds, 1, Max(nz))

\* parseFloat of a run that starts with a digit and holds digits and dots:
\* the digits before the first dot are the integer part, the digits between
\* the first and the second dot the fraction; the rest is ignored
parseFloat(num) ==
    LET dots == {j \in 1 .. Len(num) : num[j] = "."}
        d1 == IF dots = {} THEN Len(num) + 1 ELSE Min(dots)
        d2 == IF dots \ {d1} = {} THEN Len(num) + 1 ELSE Min(dots \ {d1})
        ip == DropLeadingZeros(SubSeq(num, 1, d1 - 1))
        fp == DropTrailingZeros(SubSeq(num, d1 + 1, d2 - 1))
    IN Fin(1, DecValue(ip) * Pow10(Len(fp)) + DecValue(fp), Pow10(Len(fp)))

\* the end (exclusive, 0-based) of the run of [\d.] that starts at index i
RunEnd(s, i) ==
    LET stops == {j \in i .. Len(s) - 1 : s[j + 1] \notin (Digits \cup {"."})} IN
    IF stops = {} THEN Len(s) ELSE Min(stops)

(***************************************************************************)
(* Inputs                                                                  *)
(***************************************************************************)
\* the longest input of the exhaustive family
MaxLen == 4

\* the cap of the length check, `expr.length > 200`
MaxExprLen == 200

\* a character the Guard's class does not admit
BadChar == "x"

Alphabet == {"0", "5", ".", " ", "+", "-", "*", "/", "%", "(", ")", BadChar}

\* every string over Alphabet of at most MaxLen characters
ShortInputs == UNION {[1 .. n -> Alphabet] : n \in 0 .. MaxLen}

Rep(n, c) == [j \in 1 .. n |-> c]

\* number literals of the generated expressions
Operands == {"2", "3", "4"}

BinaryOps == {"+", "-", "*", "/"}

\* a op b op c, (a op b) op c and a op (b op c)
ChainInputs ==
    UNION {{<<a, o1, b, o2, c>>,
            <<"(", a, o1, b, ")", o2, c>>,
            <<a, o1, "(", b, o2, c, ")">>} :
           <<a, o1, b, o2, c>> \in
               Operands \X BinaryOps \X Operands \X BinaryOps \X Operands}

\* '%' and unary signs around one binary operator
PercentInputs ==
    UNION {{<<a, o, b, "%">>, <<a, "%", o, b>>, <<u, a, "%">>,
            <<a, o, u, b, "%">>, <<u, "(", a, o, b, ")", "%">>,
            <<a, o, u, v, b>>, <<u, v, u, a>>} :
           <<a, o, b, u, v>> \in
               {"0", "5"} \X BinaryOps \X {"0", "4"} \X {"+", "-"} \X {"+", "-"}}

\* the expressions the documentation names, and malformed ones
Examples ==
    { <<"2", " ", "+", " ", "3", " ", "*", " ", "4">>,
      <<"(", "2", " ", "+", " ", "3", ")", " ", "*", " ", "4">>,
      <<"5", "0", "%">>,
      <<"1", "0", "%">>,
      <<"1", "0", "0", " ", "*", " ", "5", "0", "%">>,
      <<"1", "0", "0", " ", "/", " ", "5", "0", "%">>,
      <<"-", "5", "0", "%">>,
      <<"-", "-", "5">>,
      <<"+", "-", "+", "3">>,
      <<"5", " ", "/", " ", "0">>,
      <<"0", " ", "/", " ", "0">>,
      <<"2", "/", "(", "1", "/", "0", ")">>,
      <<"5", "/", "(", "5", "-", "5", ")", "*", "2">>,
      <<"(", "5", "/", "0", ")", "+", "1">>,
      <<"(", "2", " ", "+", " ", "3">>,
      <<"2", " ", "+", " ", "3", ")">>,
      <<"2", " ", "3">>,
      <<"(", "2", " ", "3", ")">>,
      <<"2", " ", "+">>,
      <<"2", "+", ".", "5">>,
      <<"1", ".", "2", ".", "3", "+", "1", ".">>,
      <<"1", "2", ".", "5", "0", "*", "2">>,
      <<" ", " ", "1", "0", " ", " ", " ", "*", " ", " ", " ", "(", " ", " ",
        "5", " ", "+", " ", "3", " ", ")", " ", " ">>,
      <<"\t", "7", "\n">>,
      <<"(", "(", "(", "2", ")", ")", ")", "*", "(", "(", "3", ")", ")">> }

\* inputs around the length cap
LongInputs ==
    { Rep(MaxExprLen, "0"),
      Rep(MaxExprLen + 1, "0"),
      Rep(MaxExprLen - 1, "0"),
      <<" ">> \o Rep(MaxExprLen, "0") \o <<" ", " ">>,
      <<" ">> \o Rep(MaxExprLen + 1, "0") \o <<" ">>,
      Rep(MaxExprLen, " ") \o <<"5">>,
      Rep(MaxExprLen, "0") \o <<BadChar>>,
      Rep(MaxExprLen - 1, "0") \o <<BadChar>>,
      Rep(MaxExprLen - 1, "(") \o <<"5">>,
      Rep(MaxExprLen, "(") \o <<"5">>,
      [j \in 1 .. MaxExprLen |->
          IF j = MaxExprLen THEN "0" ELSE IF j % 2 = 1 THEN "1" ELSE "+"] }

Inputs == ShortInputs \cup ChainInputs \cup PercentInputs \cup Examples \cup LongInputs

(***************************************************************************)
(* State                                                                   *)
(***************************************************************************)
VARIABLES
    input,    \* the argument of the call
    expr,     \* the parameter expr, reassigned by the trim
    pc,       \* where evaluateMathExpressionSimple stands
    inTry,    \* control is inside the try block
    i,        \* tokenize: the scan index
    tokens,   \* tokenize: the tokens pushed so far; then the parser's tokens
    pos,      \* parseExpression: the cursor
    stack,    \* the call stack below evaluateMathExpressionSimple
    ret,      \* the value the last call returned
    err,      \* the message of the Error thrown, "none" if none was
    result,   \* what evaluateMathExpressionSimple returned
    stateValue,      \* CurrencyInput: the state stateValue
    lastValidValue,  \* CurrencyInput: the state lastValidValue
    handler,         \* CurrencyInput: the handler waiting for the evaluator
    eventValue       \* CurrencyInput: the value the last handler worked on

\* the state of one call of evaluateMathExpressionSimple
evalVars == <<input, expr, pc, inTry, i, tokens, pos, stack, ret, err, result>>

\* the state of the CurrencyInput component
componentVars == <<stateValue, lastValidValue, handler, eventValue>>

vars == <<evalVars, componentVars>>

\* the Token union
NumberToken(v) == [type |-> "number", value |-> v]

OpToken(c) == [type |-> "op", value |-> c]

ParenToken(c) == [type |-> "paren", value |-> c]

\* an activation of one of the parser's functions: where it stands, and its
\* locals left and op
Frame(fn) == [fn |-> fn, st |-> "start", left |-> Undefined, op |-> ""]

Init ==
    /\ input \in Inputs
    /\ expr = input
    /\ pc = "trim"
    /\ inTry = FALSE
    /\ i = 0
    /\ tokens = <<>>
    /\ pos = 0
    /\ stack = <<>>
    /\ ret = Undefined
    /\ err = "none"
    /\ result = Undefined
    /\ stateValue = <<>>
    /\ lastValidValue = <<>>
    /\ handler = "none"
    /\ eventValue = <<>>

(***************************************************************************)
(* Guard: evaluateMathExpressionSimple                                     *)
(***************************************************************************)
\* expr = expr.trim()
TrimInput ==
    /\ pc = "trim"
    /\ expr' = Trim(expr)
    /\ pc' = "length"
    /\ UNCHANGED <<input, inTry, i, tokens, pos, stack, ret, err, result>>

LengthRejectedOffByOne(e) == Len(e) >= MaxExprLen \/ e = <<>>

\* expr.length > 200 || !expr
LengthRejected(e) == Len(e) > MaxExprLen \/ e = <<>>

CheckLength ==
    /\ pc = "length"
    /\ IF LengthRejected(expr)
       THEN pc' = "done" /\ result' = Undefined
       ELSE pc' = "chars" /\ UNCHANGED result
    /\ UNCHANGED <<input, expr, inTry, i, tokens, pos, stack, ret, err>>

Admissible == Digits \cup {"."} \cup WhiteSpace \cup Operators \cup Parens

CharsAdmissibleUnanchored(e) == \E j \in 1 .. Len(e) : e[j] \in Admissible

\* /^[\d.\s+\-*/%()]+$/.test(expr)
CharsAdmissible(e) == e # <<>> /\ \A j \in 1 .. Len(e) : e[j] \in Admissible

\* the class test; passing it enters the try block and calls parseExpression,
\* which calls tokenize
CheckChars ==
    /\ pc = "chars"
    /\ IF ~CharsAdmissible(expr)
       THEN /\ pc' = "done"
            /\ result' = Undefined
            /\ UNCHANGED <<inTry, stack>>
       ELSE /\ pc' = "tokenize"
            /\ inTry' = TRUE
            /\ stack' = <<Frame("parseExpression")>>
            /\ UNCHANGED result
    /\ UNCHANGED <<input, expr, i, tokens, pos, ret, err>>

ThrowEscapes(msg) ==
    /\ err' = msg
    /\ stack' = <<>>
    /\ pc' = "uncaught"

\* throw new Error(msg): the stack unwinds to the catch of the try block, or
\* out of evaluateMathExpressionSimple when there is none around the call
Throw(msg) ==
    /\ err' = msg
    /\ stack' = <<>>
    /\ pc' = IF inTry THEN "catch" ELSE "uncaught"

\* catch { return undefined }
Catch ==
    /\ pc = "catch"
    /\ pc' = "done"
    /\ result' = Undefined
    /\ inTry' = FALSE
    /\ UNCHANGED <<input, expr, i, tokens, pos, stack, ret, err>>

\* return Number.isFinite(result) ? result : undefined
FiniteCheck ==
    /\ pc = "finite"
    /\ pc' = "done"
    /\ result' = IF IsFinite(ret) THEN ret ELSE Undefined
    /\ inTry' = FALSE
    /\ UNCHANGED <<input, expr, i, tokens, pos, stack, ret, err>>

(***************************************************************************)
(* Lexer: tokenize, one action per branch of the loop body                 *)
(***************************************************************************)
\* expr[i], for i < expr.length
CharAt == expr[i + 1]

InLoop == pc = "tokenize" /\ i < Len(expr)

\* /\s/: i++
tokenize_whitespace ==
    /\ InLoop
    /\ CharAt \in WhiteSpace
    /\ i' = i + 1
    /\ UNCHANGED <<input, expr, pc, inTry, tokens, pos, stack, ret, err, result>>

\* /\d/: the inner loop takes the run of digits and dots, parseFloat converts it
tokenize_number ==
    /\ InLoop
    /\ CharAt \in Digits
    /\ LET end == RunEnd(expr, i) IN
         /\ tokens' = Append(tokens, NumberToken(parseFloat(SubSeq(expr, i + 1, end))))
         /\ i' = end
    /\ UNCHANGED <<input, expr, pc, inTry, pos, stack, ret, err, result>>

\* /[+\-*/%]/
tokenize_operator ==
    /\ InLoop
    /\ CharAt \in Operators
    /\ tokens' = Append(tokens, OpToken(CharAt))
    /\ i' = i + 1
    /\ UNCHANGED <<input, expr, pc, inTry, pos, stack, ret, err, result>>

\* "(" or ")"
tokenize_paren ==
    /\ InLoop
    /\ CharAt \in Parens
    /\ tokens' = Append(tokens, ParenToken(CharAt))
    /\ i' = i + 1
    /\ UNCHANGED <<input, expr, pc, inTry, pos, stack, ret, err, result>>

\* none of the four tests matched
tokenize_invalid ==
    /\ InLoop
    /\ CharAt \notin WhiteSpace \cup Digits \cup Operators \cup Parens
    /\ Throw("Invalid character")
    /\ UNCHANGED <<input, expr, inTry, i, tokens, pos, ret, result>>

\* return tokens; parseExpression sets pos = 0 and calls parseAddSub
tokenize_return ==
    /\ pc = "tokenize"
    /\ i >= Len(expr)
    /\ pc' = "parse"
    /\ pos' = 0
    /\ stack' = <<[Frame("parseExpression") EXCEPT !.st = "result"], Frame("parseAddSub")>>
    /\ UNCHANGED <<input, expr, inTry, i, tokens, ret, err, result>>

(***************************************************************************)
(* Parser: parseExpression and its closures.  Each function is the frame   *)
(* on top of the stack; its actions are the stretches of its body between  *)
(* two calls.                                                              *)
(***************************************************************************)
\* the token peek() answers with undefined past the end
NoToken == [type |-> "none", value |-> ""]

\* tokens[pos]
peek == IF pos < Len(tokens) THEN tokens[pos + 1] ELSE NoToken

\* peek()?.type === "op" && peek().value is one of ops
PeekIsOp(ops) == IF peek.type = "op" THEN peek.value \in ops ELSE FALSE

\* peek()?.type === "paren" && peek().value === c
PeekIsParen(c) == IF peek.type = "paren" THEN peek.value = c ELSE FALSE

consumeNothing == pos' = pos

\* tokens[pos++]: the cursor moves whether or not a token is there
consume == pos' = pos + 1

Parsing == pc = "parse" /\ stack # <<>>

Top == stack[Len(stack)]

At(fn, sts) == Parsing /\ Top.fn = fn /\ Top.st \in sts

\* the running frame moves to f and calls fn
Call(f, fn) == stack' = Append([stack EXCEPT ![Len(stack)] = f], Frame(fn))

\* the running frame returns v to its caller
Return(v) == stack' = SubSeq(stack, 1, Len(stack) - 1) /\ ret' = v

\* let left = parseMulDiv()
parseAddSub_enter ==
    /\ At("parseAddSub", {"start"})
    /\ Call([Top EXCEPT !.st = "left"], "parseMulDiv")
    /\ UNCHANGED <<input, expr, pc, inTry, i, tokens, pos, ret, err, result>>

AddSubApplySwapped(op, left, right) ==
    IF op = "+" THEN FSub(left, right) ELSE FAdd(left, right)

\* left = op === "+" ? left + right : left - right
AddSubApply(op, left, right) ==
    IF op = "+" THEN FAdd(left, right) ELSE FSub(left, right)

\* left as the callee's return leaves it: the first operand, or the
\* previous left combined with the right operand
AddSubLeft == IF Top.st = "left" THEN ret ELSE AddSubApply(Top.op, Top.left, ret)

\* the while test holds: consume the operator and parse the right operand
parseAddSub_operator ==
    /\ At("parseAddSub", {"left", "right"})
    /\ PeekIsOp({"+", "-"})
    /\ consume
    /\ Call([Top EXCEPT !.st = "right", !.left = AddSubLeft, !.op = peek.value],
            "parseMulDiv")
    /\ UNCHANGED <<input, expr, pc, inTry, i, tokens, ret, err, result>>

\* the while test fails: return left
parseAddSub_return ==
    /\ At("parseAddSub", {"left", "right"})
    /\ ~PeekIsOp({"+", "-"})
    /\ Return(AddSubLeft)
    /\ UNCHANGED <<input, expr, pc, inTry, i, tokens, pos, err, result>>

\* let left = parsePercentage()
parseMulDiv_enter ==
    /\ At("parseMulDiv", {"start"})
    /\ Call([Top EXCEPT !.st = "left"], "parsePercentage")
    /\ UNCHANGED <<input, expr, pc, inTry, i, tokens, pos, ret, err, result>>

MulDivApplyZeroGuarded(op, left, right) ==
    IF op = "*" THEN FMul(left, right)
    ELSE IF IsZero(right) THEN Num(0) ELSE FDiv(left, right)

\* if (op === "*") left = left * right; else left = left / right
MulDivApply(op, left, right) ==
    IF op = "*" THEN FMul(left, right) ELSE FDiv(left, right)

MulDivLeft == IF Top.st = "left" THEN ret ELSE MulDivApply(Top.op, Top.left, ret)

parseMulDiv_operatorAnyBinary ==
    /\ At("parseMulDiv", {"left", "right"})
    /\ PeekIsOp({"*", "/", "+", "-"})
    /\ consume
    /\ Call([Top EXCEPT !.st = "right", !.left = MulDivLeft, !.op = peek.value],
            "parsePercentage")
    /\ UNCHANGED <<input, expr, pc, inTry, i, tokens, ret, err, result>>

\* the while test holds: consume the operator and parse the right operand
parseMulDiv_operator ==
    /\ At("parseMulDiv", {"left", "right"})
    /\ PeekIsOp({"*", "/"})
    /\ consume
    /\ Call([Top EXCEPT !.st = "right", !.left = MulDivLeft, !.op = peek.value],
            "parsePercentage")
    /\ UNCHANGED <<input, expr, pc, inTry, i, tokens, ret, err, result>>

\* the while test fails: return left
parseMulDiv_return ==
    /\ At("parseMulDiv", {"left", "right"})
    /\ ~PeekIsOp({"*", "/"})
    /\ Return(MulDivLeft)
    /\ UNCHANGED <<input, expr, pc, inTry, i, tokens, pos, err, result>>

\* let left = parseUnary()
parsePercentage_enter ==
    /\ At("parsePercentage", {"start"})
    /\ Call([Top EXCEPT !.st = "left"], "parseUnary")
    /\ UNCHANGED <<input, expr, pc, inTry, i, tokens, pos, ret, err, result>>

PercentOfTimes(left) == FMul(left, Num(100))

\* left = left / 100
PercentOf(left) == FDiv(left, Num(100))

\* a '%' follows: consume it and return left / 100
parsePercentage_percent ==
    /\ At("parsePercentage", {"left"})
    /\ PeekIsOp({"%"})
    /\ consume
    /\ Return(PercentOf(ret))
    /\ UNCHANGED <<input, expr, pc, inTry, i, tokens, err, result>>

\* no '%' follows: return left
parsePercentage_return ==
    /\ At("parsePercentage", {"left"})
    /\ ~PeekIsOp({"%"})
    /\ Return(ret)
    /\ UNCHANGED <<input, expr, pc, inTry, i, tokens, pos, err, result>>

\* a sign: consume it and parse the operand with parseUnary
parseUnary_sign ==
    /\ At("parseUnary", {"start"})
    /\ PeekIsOp({"-", "+"})
    /\ consume
    /\ Call([Top EXCEPT !.st = "operand", !.op = peek.value], "parseUnary")
    /\ UNCHANGED <<input, expr, pc, inTry, i, tokens, ret, err, result>>

\* no sign: return parsePrimary()
parseUnary_primary ==
    /\ At("parseUnary", {"start"})
    /\ ~PeekIsOp({"-", "+"})
    /\ Call([Top EXCEPT !.st = "primary"], "parsePrimary")
    /\ UNCHANGED <<input, expr, pc, inTry, i, tokens, pos, ret, err, result>>

UnaryApplyIgnored(op, value) == value

\* op === "-" ? -value : value
UnaryApply(op, value) == IF op = "-" THEN FNeg(value) ELSE value

parseUnary_return ==
    /\ At("parseUnary", {"operand", "primary"})
    /\ Return(IF Top.st = "operand" THEN UnaryApply(Top.op, ret) ELSE ret)
    /\ UNCHANGED <<input, expr, pc, inTry, i, tokens, pos, err, result>>

\* const token = peek(); if (!token) throw
parsePrimary_end ==
    /\ At("parsePrimary", {"start"})
    /\ peek.type = "none"
    /\ Throw("Unexpected end of expression")
    /\ UNCHANGED <<input, expr, inTry, i, tokens, pos, ret, result>>

\* return consume().value
parsePrimary_number ==
    /\ At("parsePrimary", {"start"})
    /\ peek.type = "number"
    /\ consume
    /\ Return(peek.value)
    /\ UNCHANGED <<input, expr, pc, inTry, i, tokens, err, result>>

\* consume '(' and parse the inner expression
parsePrimary_open ==
    /\ At("parsePrimary", {"start"})
    /\ PeekIsParen("(")
    /\ consume
    /\ Call([Top EXCEPT !.st = "inner"], "parseAddSub")
    /\ UNCHANGED <<input, expr, pc, inTry, i, tokens, ret, err, result>>

\* neither a number nor '('
parsePrimary_unexpected ==
    /\ At("parsePrimary", {"start"})
    /\ peek.type \notin {"none", "number"}
    /\ ~PeekIsParen("(")
    /\ Throw("Unexpected token")
    /\ UNCHANGED <<input, expr, inTry, i, tokens, pos, ret, result>>

ClosingMissingNever == FALSE

\* peek()?.type !== "paren" || peek().value !== ")"
ClosingMissing == ~PeekIsParen(")")

\* after the inner expression: the token must be ')'
parsePrimary_missing ==
    /\ At("parsePrimary", {"inner"})
    /\ ClosingMissing
    /\ Throw("Missing closing parenthesis")
    /\ UNCHANGED <<input, expr, inTry, i, tokens, pos, ret, result>>

\* consume ')' and return the inner value
parsePrimary_close ==
    /\ At("parsePrimary", {"inner"})
    /\ ~ClosingMissing
    /\ consume
    /\ Return(ret)
    /\ UNCHANGED <<input, expr, pc, inTry, i, tokens, err, result>>

TokensLeftNever == FALSE

\* pos < tokens.length
TokensLeft == pos < Len(tokens)

\* parseAddSub returned to parseExpression with tokens left over
parseExpression_trailing ==
    /\ At("parseExpression", {"result"})
    /\ TokensLeft
    /\ Throw("Unexpected token after expression")
    /\ UNCHANGED <<input, expr, inTry, i, tokens, pos, ret, result>>

\* return result
parseExpression_return ==
    /\ At("parseExpression", {"result"})
    /\ ~TokensLeft
    /\ pc' = "finite"
    /\ stack' = <<>>
    /\ UNCHANGED <<input, expr, inTry, i, tokens, pos, ret, err, result>>

\* a step of the evaluator; the component waits for the call to return
Next ==
    \/ TrimInput /\ UNCHANGED componentVars
    \/ CheckLength /\ UNCHANGED componentVars
    \/ CheckChars /\ UNCHANGED componentVars
    \/ tokenize_whitespace /\ UNCHANGED componentVars
    \/ tokenize_number /\ UNCHANGED componentVars
    \/ tokenize_operator /\ UNCHANGED componentVars
    \/ tokenize_paren /\ UNCHANGED componentVars
    \/ tokenize_invalid /\ UNCHANGED componentVars
    \/ tokenize_return /\ UNCHANGED componentVars
    \/ parseAddSub_enter /\ UNCHANGED componentVars
    \/ parseAddSub_operator /\ UNCHANGED componentVars
    \/ parseAddSub_return /\ UNCHANGED componentVars
    \/ parseMulDiv_enter /\ UNCHANGED componentVars
    \/ parseMulDiv_operator /\ UNCHANGED componentVars
    \/ parseMulDiv_return /\ UNCHANGED componentVars
    \/ parsePercentage_enter /\ UNCHANGED componentVars
    \/ parsePercentage_percent /\ UNCHANGED componentVars
    \/ parsePercentage_return /\ UNCHANGED componentVars
    \/ parseUnary_sign /\ UNCHANGED componentVars
    \/ parseUnary_primary /\ UNCHANGED componentVars
    \/ parseUnary_return /\ UNCHANGED componentVars
    \/ parsePrimary_end /\ UNCHANGED componentVars
    \/ parsePrimary_number /\ UNCHANGED componentVars
    \/ parsePrimary_open /\ UNCHANGED componentVars
    \/ parsePrimary_unexpected /\ UNCHANGED componentVars
    \/ parsePrimary_missing /\ UNCHANGED componentVars
    \/ parsePrimary_close /\ UNCHANGED componentVars
    \/ parseExpression_trailing /\ UNCHANGED componentVars
    \/ parseExpression_return /\ UNCHANGED componentVars
    \/ FiniteCheck /\ UNCHANGED componentVars
    \/ Catch /\ UNCHANGED componentVars

Spec == Init /\ [][Next]_vars

(***************************************************************************)
(* CurrencyInput, as src/examples/Example5 mounts it: uncontrolled (no      *)
(* value prop, so the input shows stateValue), no prefix, no suffix, no     *)
(* step, decimalsLimit 2, '.' as decimal and ',' as group separator.        *)
(* A handler that calls evaluateMathExpressionSimple is two actions: the    *)
(* part up to the call, and the part after it returned; the evaluator's     *)
(* actions run in between.                                                  *)
(***************************************************************************)
\* the longest value typed or pasted into the field
TypedMaxLen == 3

\* the fraction digits String(number) is modelled to: cleanValue reads the
\* first decimalsLimit of them
StringFracDigits == 4

\* decimalsLimit={2}
decimalsLimit == 2

decimalSeparator == "."

groupSeparator == ","

TypedAlphabet == {"0", "5", "+", "/"}

TypedValues ==
    UNION {[1 .. n -> TypedAlphabet] : n \in 0 .. TypedMaxLen}
      \cup { <<"-">>, <<".">>, <<"-", "5">>, <<"5", ".", "5">>,
             <<"5", ".", "5", "5", "5">>, <<"(", "5">>, <<"5", "%">>,
             <<"5", "-", "5">>, <<"5", "*", "5">>, <<" ", "5", "+", "5", " ">>,
             <<"5", ",", "0", "+", "5">>, <<"5", BadChar, "+">>,
             <<"5", " ", "+", "5">>, <<".", "+", "5">>, <<"(", "5", ")">>,
             <<"5", ")">>, <<"5", "/", "(", "5", "-", "5", ")">> }

\* the defaultValue prop: none (the empty string stands for it), or a number
DefaultValues == {<<>>, <<"5">>}

\* s without its occurrences of c
RemoveAll(s, c) == SelectSeq(s, LAMBDA ch : ch # c)

\* value.replace(prefix || '', '').replace(suffix || '', ''), then
\* /[*/%()+]/ or /[^-+][-+]/
containsMathOperators(v) ==
    \/ \E j \in 1 .. Len(v) : v[j] \in {"*", "/", "%", "(", ")", "+"}
    \/ \E j \in 1 .. Len(v) - 1 : v[j] \notin {"-", "+"} /\ v[j + 1] \in {"-", "+"}

\* the expression handed to the evaluator: trimmed, group separators removed
CleanExpression(v) == RemoveAll(Trim(v), groupSeparator)

\* cleanValue of the formatting layer: the digits, the first decimal
\* separator with at most decimalsLimit decimals, and '-' in front when the
\* value holds one
cleanValue(v) ==
    IF v = <<"-">> THEN v
    ELSE LET sign == IF \E j \in 1 .. Len(v) : v[j] = "-" THEN <<"-">> ELSE <<>>
             kept == SelectSeq(v, LAMBDA ch : ch \in Digits \cup {decimalSeparator})
             dots == {j \in 1 .. Len(kept) : kept[j] = decimalSeparator}
             d1 == IF dots = {} THEN Len(kept) + 1 ELSE Min(dots)
             d2 == IF dots \ {d1} = {} THEN Len(kept) + 1 ELSE Min(dots \ {d1})
             decimals == SubSeq(kept, d1 + 1, d2 - 1)
             trimmed == IF Len(decimals) > decimalsLimit
                        THEN SubSeq(decimals, 1, decimalsLimit) ELSE decimals
         IN IF dots = {} THEN sign \o kept
            ELSE sign \o SubSeq(kept, 1, d1 - 1) \o <<decimalSeparator>> \o trimmed

\* formatValue of the formatting layer, without prefix, suffix and grouping:
\* the integer part loses the zeros it starts with, the rest is kept
formatValue(v) ==
    IF v = <<>> \/ v = <<"-">> THEN v
    ELSE LET neg == Head(v) = "-"
             body == IF neg THEN Tail(v) ELSE v
             dots == {j \in 1 .. Len(body) : body[j] = decimalSeparator}
             d1 == IF dots = {} THEN Len(body) + 1 ELSE Min(dots)
             int == DropLeadingZeros(SubSeq(body, 1, d1 - 1))
         IN (IF neg THEN <<"-">> ELSE <<>>)
              \o (IF int = <<>> THEN <<"0">> ELSE int)
              \o SubSeq(body, d1, Len(body))

DigitChar(k) ==
    CASE k = 0 -> "0" [] k = 1 -> "1" [] k = 2 -> "2" [] k = 3 -> "3"
      [] k = 4 -> "4" [] k = 5 -> "5" [] k = 6 -> "6" [] k = 7 -> "7"
      [] k = 8 -> "8" [] k = 9 -> "9"

RECURSIVE IntToString(_)
IntToString(n) ==
    IF n < 10 THEN <<DigitChar(n)>>
    ELSE Append(IntToString(n \div 10), DigitChar(n % 10))

\* the digits of r / d after the point, by long division, at most k of them
RECURSIVE FracToString(_, _, _)
FracToString(r, d, k) ==
    IF r = 0 \/ k = 0 THEN <<>>
    ELSE <<DigitChar((r * 10) \div d)>> \o FracToString((r * 10) % d, d, k - 1)

\* String(evaluatedResult), for a finite number: "-" unless zero, the
\* integer part, and the fraction if there is one
NumberToString(x) ==
    (IF x.s = -1 /\ x.n # 0 THEN <<"-">> ELSE <<>>)
      \o IntToString(x.n \div x.d)
      \o (IF x.n % x.d = 0 THEN <<>>
          ELSE <<".">> \o FracToString(x.n % x.d, x.d, StringFracDigits))

\* the evaluator between two calls
EvaluatorAt(where, e) ==
    /\ input' = e
    /\ expr' = e
    /\ pc' = where
    /\ inTry' = FALSE
    /\ i' = 0
    /\ tokens' = <<>>
    /\ pos' = 0
    /\ stack' = <<>>
    /\ ret' = Undefined
    /\ err' = "none"
    /\ result' = Undefined

\* no handler is running
Idle == handler = "none" /\ pc = "idle"

processChangeKeepsExpression(v) ==
    IF containsMathOperators(v)
    THEN stateValue' = v /\ lastValidValue' = v
    ELSE LET stringValue == cleanValue(v) IN
         IF stringValue \in {<<>>, <<"-">>, <<decimalSeparator>>}
         THEN stateValue' = stringValue /\ lastValidValue' = <<>>
         ELSE /\ stateValue' = formatValue(stringValue)
              /\ lastValidValue' = formatValue(stringValue)

\* processChange(value): an expression is shown raw; anything else is
\* cleaned and formatted, and becomes the last valid value
processChange(v) ==
    IF containsMathOperators(v)
    THEN stateValue' = v /\ UNCHANGED lastValidValue
    ELSE LET stringValue == cleanValue(v) IN
         IF stringValue \in {<<>>, <<"-">>, <<decimalSeparator>>}
         THEN stateValue' = stringValue /\ lastValidValue' = <<>>
         ELSE /\ stateValue' = formatValue(stringValue)
              /\ lastValidValue' = formatValue(stringValue)

\* handleOnChange: the user typed or pasted, the field now reads v
handleOnChange ==
    /\ Idle
    /\ \E v \in TypedValues :
         /\ eventValue' = v
         /\ processChange(v)
    /\ UNCHANGED <<evalVars, handler>>

\* handleOnBlur / handleOnKeyDown with Enter, the field holding an
\* expression: call evaluateMathExpressionSimple(cleanExpression)
CallEvaluator(h) ==
    /\ Idle
    /\ containsMathOperators(stateValue)
    /\ eventValue' = stateValue
    /\ handler' = h
    /\ EvaluatorAt("trim", CleanExpression(stateValue))
    /\ UNCHANGED <<stateValue, lastValidValue>>

\* the call returned: a number goes through processChange, undefined
\* restores the last valid value
EvaluatorReturned(h) ==
    /\ handler = h
    /\ pc = "done"
    /\ IF result # Undefined
       THEN /\ eventValue' = NumberToString(result)
            /\ processChange(NumberToString(result))
       ELSE /\ stateValue' = lastValidValue
            /\ UNCHANGED <<lastValidValue, eventValue>>
    /\ handler' = "none"
    /\ EvaluatorAt("idle", <<>>)

handleOnBlur_expression == CallEvaluator("blur")

handleOnBlur_evaluated == EvaluatorReturned("blur")

\* handleOnBlur, the field holding no expression: clean, format, store
handleOnBlur_value ==
    /\ Idle
    /\ ~containsMathOperators(stateValue)
    /\ eventValue' = stateValue
    /\ LET valueOnly == cleanValue(stateValue) IN
         IF valueOnly \in {<<>>, <<"-">>, <<decimalSeparator>>}
         THEN stateValue' = <<>> /\ lastValidValue' = <<>>
         ELSE /\ stateValue' = formatValue(valueOnly)
              /\ lastValidValue' = formatValue(valueOnly)
    /\ UNCHANGED <<evalVars, handler>>

handleOnKeyDown_enter == CallEvaluator("enter")

handleOnKeyDown_evaluated == EvaluatorReturned("enter")

\* the component after its first render
InitComponent ==
    /\ \E dv \in DefaultValues :
         /\ stateValue = formatValue(dv)
         /\ lastValidValue = formatValue(dv)
    /\ handler = "none"
    /\ eventValue = <<>>
    /\ input = <<>>
    /\ expr = <<>>
    /\ pc = "idle"
    /\ inTry = FALSE
    /\ i = 0
    /\ tokens = <<>>
    /\ pos = 0
    /\ stack = <<>>
    /\ ret = Undefined
    /\ err = "none"
    /\ result = Undefined

NextComponent ==
    \/ handleOnChange
    \/ handleOnBlur_expression
    \/ handleOnBlur_evaluated
    \/ handleOnBlur_value
    \/ handleOnKeyDown_enter
    \/ handleOnKeyDown_evaluated
    \/ Next

SpecComponent == InitComponent /\ [][NextComponent]_vars

(***************************************************************************)
(* The grammar's meaning, read off the token sequence top-down: an         *)
(* expression splits at its last binary '+' or '-' outside parentheses,    *)
(* else at its last '*' or '/' outside parentheses; what has neither is an *)
(* operand, with an optional postfix '%' around signs around a primary.    *)
(***************************************************************************)
Bad == [k |-> "bad", s |-> 1, n |-> 0, d |-> 1]

IsOpTok(tok, ops) == IF tok.type = "op" THEN tok.value \in ops ELSE FALSE

IsParenTok(tok, c) == IF tok.type = "paren" THEN tok.value = c ELSE FALSE

\* '(' minus ')' among the first j tokens of t
Depth(t, j) ==
    Cardinality({q \in 1 .. j : IsParenTok(t[q], "(")})
      - Cardinality({q \in 1 .. j : IsParenTok(t[q], ")")})

\* the token at j follows an operand: an operator there is a binary one
IsBinaryAt(t, j) ==
    /\ j > 1
    /\ \/ t[j - 1].type = "number"
       \/ IsParenTok(t[j - 1], ")")
       \/ IsOpTok(t[j - 1], {"%"})

TopLevelBinary(t, ops) ==
    {j \in 1 .. Len(t) : IsOpTok(t[j], ops) /\ IsBinaryAt(t, j) /\ Depth(t, j) = 0}

RefApply(op, x, y) ==
    IF x = Bad \/ y = Bad THEN Bad
    ELSE CASE op = "+" -> FAdd(x, y)
           [] op = "-" -> FAdd(x, FNeg(y))
           [] op = "*" -> FMul(x, y)
           [] op = "/" -> FDiv(x, y)

RECURSIVE RefExpr(_), RefUnary(_)
RefExpr(t) ==
    IF t = <<>> THEN Bad
    ELSE LET as == TopLevelBinary(t, {"+", "-"})
             md == TopLevelBinary(t, {"*", "/"})
             cut == IF as # {} THEN Max(as) ELSE Max(md)
         IN IF as # {} \/ md # {}
            THEN RefApply(t[cut].value, RefExpr(SubSeq(t, 1, cut - 1)),
                          RefExpr(SubSeq(t, cut + 1, Len(t))))
            ELSE IF IsOpTok(t[Len(t)], {"%"})
            THEN RefApply("/", RefUnary(SubSeq(t, 1, Len(t) - 1)), Num(100))
            ELSE RefUnary(t)

RefUnary(t) ==
    IF t = <<>> THEN Bad
    ELSE IF IsOpTok(t[1], {"+", "-"})
    THEN LET v == RefUnary(Tail(t)) IN
         IF v = Bad THEN Bad ELSE IF t[1].value = "-" THEN FNeg(v) ELSE v
    ELSE IF Len(t) = 1
    THEN (IF t[1].type = "number" THEN t[1].value ELSE Bad)
    ELSE IF IsParenTok(t[1], "(") /\ IsParenTok(t[Len(t)], ")")
    THEN RefExpr(SubSeq(t, 2, Len(t) - 1))
    ELSE Bad

\* what the caller is to see of a value: the value if finite, else undefined
Visible(v) == IF v.k = "fin" THEN v ELSE Undefined

\* the call returned after tokenize scanned all of expr
Tokenized == pc = "done" /\ expr # <<>> /\ i = Len(expr)

ParserErrors ==
    {"Unexpected end of expression", "Missing closing parenthesis",
     "Unexpected token", "Unexpected token after expression"}

(***************************************************************************)
(* Claims                                                                  *)
(***************************************************************************)
\* C1: a call ends with undefined or a finite number; every Error thrown by
\* tokenize or by the parser, and every non-finite value, ends as undefined,
\* and no Error leaves evaluateMathExpressionSimple.
C1_FailuresBecomeInvalid ==
    /\ pc # "uncaught"
    /\ pc = "catch" => inTry
    /\ pc = "done" =>
         /\ result = Undefined \/ result.k = "fin"
         /\ err # "none" => result = Undefined
         /\ ret.k \in {"inf", "nan"} => result = Undefined

\* a parser Error was thrown, caught, and the call returned undefined
C1_Witness ==
    /\ pc = "done"
    /\ err = "Missing closing parenthesis"
    /\ result = Undefined

\* C2: an input whose trimmed form is empty or longer than 200 characters
\* is answered undefined straight from the length check, with nothing
\* tokenized or parsed; a trimmed input of at most 200 admissible
\* characters goes on to tokenize.
C2_LengthGuard ==
    LET t == Trim(input) IN
    /\ (pc # "trim" /\ (t = <<>> \/ Len(t) > 200)) =>
         /\ pc \in {"length", "done"}
         /\ tokens = <<>> /\ i = 0 /\ pos = 0 /\ stack = <<>> /\ err = "none"
         /\ pc = "done" => result = Undefined
    /\ (pc = "done" /\ t # <<>> /\ Len(t) <= 200
          /\ \A j \in 1 .. Len(t) : t[j] \in Admissible) =>
         (err # "none" \/ i = Len(t))

\* white space around 201 characters: rejected on the trimmed length
C2_Witness ==
    /\ pc = "done"
    /\ Len(input) = 203
    /\ Len(expr) = 201
    /\ result = Undefined

\* exactly 200 characters after the trim: tokenized, parsed and answered
C2_WitnessAtCap ==
    /\ pc = "done"
    /\ Len(input) = 203
    /\ Len(expr) = 200
    /\ i = 200
    /\ result = Num(0)

\* C3: an input with a character outside digits, '.', white space,
\* '+', '-', '*', '/', '%', '(', ')' is answered undefined, wherever the
\* character sits; the Guard rejects it, before tokenize is called.
C3_DisallowedCharacter ==
    (pc = "done" /\ \E j \in 1 .. Len(input) : input[j] \notin Admissible) =>
        /\ result = Undefined
        /\ err = "none"
        /\ tokens = <<>> /\ i = 0

\* the character sits between two admissible ones
C3_Witness ==
    /\ pc = "done"
    /\ input = <<"5", "+", BadChar, "5">>
    /\ result = Undefined

\* the operators of t are binary '+', '-', '*', '/' only
OnlyBinary(t) ==
    \A j \in 1 .. Len(t) :
        t[j].type = "op" => (t[j].value \in BinaryOps /\ IsBinaryAt(t, j))

\* C4: on a well-formed expression over numbers, binary '+', '-', '*', '/'
\* and parentheses the result is the value in which '*' and '/' bind
\* tighter than '+' and '-', equal levels associate to the left and a
\* parenthesized part is evaluated first; "2 + 3 * 4" is 14 and
\* "(2 + 3) * 4" is 20.
C4_Precedence ==
    /\ (Tokenized /\ OnlyBinary(tokens) /\ RefExpr(tokens) # Bad) =>
         (err = "none" /\ result = Visible(RefExpr(tokens)))
    /\ (pc = "done" /\ input = <<"2", " ", "+", " ", "3", " ", "*", " ", "4">>) =>
         result = Num(14)
    /\ (pc = "done"
          /\ input = <<"(", "2", " ", "+", " ", "3", ")", " ", "*", " ", "4">>) =>
         result = Num(20)
    /\ (pc = "done" /\ input = <<"4", "-", "3", "-", "2">>) => result = Fin(-1, 1, 1)
    /\ (pc = "done" /\ input = <<"4", "/", "2", "/", "2">>) => result = Num(1)
    /\ (pc = "done" /\ input = <<"4", "-", "2", "*", "3">>) => result = Fin(-1, 2, 1)

\* 2 + 3 * 4 was evaluated to 14
C4_Witness ==
    /\ pc = "done"
    /\ input = <<"2", " ", "+", " ", "3", " ", "*", " ", "4">>
    /\ Len(tokens) = 5
    /\ result = Num(14)

\* C5: a postfix '%' divides by 100 the value of the Unary operand right
\* before it, binding tighter than '*' and '/' and looser than a sign:
\* "50%" is 0.5, "100 * 50%" is 50, "-50%" is -0.5; a second '%' on the
\* same operand is not accepted.
C5_Percentage ==
    /\ (Tokenized /\ RefExpr(tokens) # Bad
          /\ \E j \in 1 .. Len(tokens) : IsOpTok(tokens[j], {"%"})) =>
         (err = "none" /\ result = Visible(RefExpr(tokens)))
    /\ (pc = "done" /\ input = <<"5", "0", "%">>) => result = Fin(1, 1, 2)
    /\ (pc = "done" /\ input = <<"1", "0", "%">>) => result = Fin(1, 1, 10)
    /\ (pc = "done" /\ input = <<"1", "0", "0", " ", "*", " ", "5", "0", "%">>) =>
         result = Num(50)
    /\ (pc = "done" /\ input = <<"1", "0", "0", " ", "/", " ", "5", "0", "%">>) =>
         result = Num(200)
    /\ (pc = "done" /\ input = <<"-", "5", "0", "%">>) => result = Fin(-1, 1, 2)
    /\ (Tokenized
          /\ \E j \in 1 .. Len(tokens) - 1 :
                IsOpTok(tokens[j], {"%"}) /\ IsOpTok(tokens[j + 1], {"%"})) =>
         (result = Undefined /\ err \in ParserErrors)

\* 100 / 50% was evaluated to 100 / (50 / 100)
C5_Witness ==
    /\ pc = "done"
    /\ input = <<"1", "0", "0", " ", "/", " ", "5", "0", "%">>
    /\ result = Num(200)

\* t[a .. b] holds signs only
SignsOnly(t, a, b) == \A j \in a .. b : IsOpTok(t[j], {"+", "-"})

\* v negated once per '-' among t[a .. b]
Signed(t, a, b, v) ==
    IF Cardinality({j \in a .. b : t[j].value = "-"}) % 2 = 1 THEN FNeg(v) ELSE v

\* C6: signs in front of a primary, however many, are accepted and negate
\* its value once per '-': "--5" is 5, "+-+3" is -3; such a chain is also
\* accepted right after a binary operator.
C6_UnaryChain ==
    LET n == Len(tokens) IN
    /\ (Tokenized /\ n >= 2 /\ SignsOnly(tokens, 1, n - 1)
          /\ tokens[n].type = "number") =>
         (err = "none" /\ result = Signed(tokens, 1, n - 1, tokens[n].value))
    /\ (Tokenized /\ n >= 4 /\ tokens[1].type = "number"
          /\ IsOpTok(tokens[2], BinaryOps) /\ SignsOnly(tokens, 3, n - 1)
          /\ tokens[n].type = "number") =>
         (err = "none"
          /\ result = Visible(RefApply(tokens[2].value, tokens[1].value,
                                       Signed(tokens, 3, n - 1, tokens[n].value))))
    /\ (pc = "done" /\ input = <<"-", "-", "5">>) => result = Num(5)
    /\ (pc = "done" /\ input = <<"+", "-", "+", "3">>) => result = Fin(-1, 3, 1)

\* +-+3 was evaluated to -3
C6_Witness ==
    /\ pc = "done"
    /\ input = <<"+", "-", "+", "3">>
    /\ result = Fin(-1, 3, 1)

\* outside parentheses t holds a binary '/' whose right operand, the tokens
\* up to the next binary operator outside parentheses, has the value zero
DividesByZeroAtTop(t) ==
    \E j \in TopLevelBinary(t, {"/"}) :
        LET later == {q \in TopLevelBinary(t, BinaryOps) : q > j}
            last == IF later = {} THEN Len(t) ELSE Min(later) - 1
        IN IsZero(RefExpr(SubSeq(t, j + 1, last)))

\* C7: dividing by zero is no parser failure: the parser returns a
\* non-finite value and the Guard's Number.isFinite test makes it
\* undefined, so an expression that divides by zero outside parentheses,
\* as "5 / 0" and "0 / 0", is answered undefined.
C7_DivisionByZero ==
    /\ (pc = "finite" /\ DividesByZeroAtTop(tokens)) => ret.k \in {"inf", "nan"}
    /\ (Tokenized /\ DividesByZeroAtTop(tokens)) =>
         /\ result = Undefined
         /\ RefExpr(tokens) # Bad => (err = "none" /\ ret.k \in {"inf", "nan"})
    /\ (pc = "done" /\ input = <<"5", " ", "/", " ", "0">>) =>
         (ret = Infinity(1) /\ err = "none" /\ result = Undefined)
    /\ (pc = "done" /\ input = <<"0", " ", "/", " ", "0">>) =>
         (ret = NaN /\ err = "none" /\ result = Undefined)

\* 5 / 0: the parser returned Infinity, the Guard answered undefined
C7_Witness ==
    /\ pc = "done"
    /\ input = <<"5", " ", "/", " ", "0">>
    /\ ret = Infinity(1)
    /\ err = "none"
    /\ result = Undefined

\* a primary is expected at index j of t: at the start, after a binary
\* operator or a sign, after '('
ExpectsPrimary(t, j) ==
    \/ j = 1
    \/ IsOpTok(t[j - 1], BinaryOps)
    \/ IsParenTok(t[j - 1], "(")

\* the malformed shapes: an unclosed '(', a ')' too many, two numbers in a
\* row, an operator or ')' where a primary is expected, the end where a
\* primary is expected, or no derivation in the grammar at all
Malformed(t) ==
    \/ Depth(t, Len(t)) > 0
    \/ \E j \in 1 .. Len(t) : Depth(t, j) < 0
    \/ \E j \in 1 .. Len(t) - 1 : t[j].type = "number" /\ t[j + 1].type = "number"
    \/ \E j \in 1 .. Len(t) :
          ExpectsPrimary(t, j) /\ (IsOpTok(t[j], {"*", "/", "%"}) \/ IsParenTok(t[j], ")"))
    \/ ExpectsPrimary(t, Len(t) + 1)
    \/ RefExpr(t) = Bad

\* C8: a structurally malformed token sequence is answered undefined, by
\* an Error of the parser: "(2 + 3", "2 + 3)", a second number, an operator
\* or ')' in primary position, the end in primary position.
C8_Malformed ==
    /\ (Tokenized /\ Malformed(tokens)) => (result = Undefined /\ err \in ParserErrors)
    /\ (pc = "done" /\ input = <<"(", "2", " ", "+", " ", "3">>) =>
         (err = "Missing closing parenthesis" /\ result = Undefined)
    /\ (pc = "done" /\ input = <<"2", " ", "+", " ", "3", ")">>) =>
         (err = "Unexpected token after expression" /\ result = Undefined)
    /\ (pc = "done" /\ input = <<"2", " ", "3">>) =>
         (err = "Unexpected token after expression" /\ result = Undefined)
    /\ (pc = "done" /\ input = <<"2", " ", "+">>) =>
         (err = "Unexpected end of expression" /\ result = Undefined)
    /\ (pc = "done" /\ input = <<"5", "*", ")">>) =>
         (err = "Unexpected token" /\ result = Undefined)

\* 2 + 3): the ')' was left over after the top-level expression
C8_Witness ==
    /\ pc = "done"
    /\ input = <<"2", " ", "+", " ", "3", ")">>
    /\ pos = 3 /\ Len(tokens) = 4
    /\ err = "Unexpected token after expression"
    /\ result = Undefined

\* C9: behind the Guard tokenize never throws "Invalid character".
C9_LexerNeverFails == err # "Invalid character"

\* C10: the cursor starts at 0, moves only by one step forward, onto a
\* token that peek found, never past the end of tokens; when
\* parseExpression returns a value every token has been consumed.
C10_Cursor ==
    /\ [](pos >= 0 /\ pos <= Len(tokens))
    /\ [](pc = "tokenize" => pos = 0)
    /\ [](pc = "finite" => pos = Len(tokens))
    /\ []((Tokenized /\ err = "none") => pos = Len(tokens))
    /\ [][ /\ (pc = "tokenize" /\ pc' = "parse") => pos' = 0
           /\ pos' = pos \/ (pos' = pos + 1 /\ pos < Len(tokens) /\ pc = "parse")
           /\ pc = "parse" => tokens' = tokens ]_vars

\* four tokens were consumed one by one and parseExpression returned
C10_Witness ==
    /\ pc = "finite"
    /\ Len(tokens) = 4
    /\ pos = 4


\* the evaluation a handler asked for came back invalid, and the handler
\* takes its result
InvalidReturns == handler \in {"blur", "enter"} /\ pc = "done" /\ result = Undefined

FrameWeight(f) ==
    IF f.st # "start" THEN 1
    ELSE CASE f.fn = "parseAddSub" -> 9
           [] f.fn = "parseMulDiv" -> 7
           [] f.fn = "parsePercentage" -> 5
           [] f.fn = "parseUnary" -> 3
           [] OTHER -> 1

\* the frames of the stack in state "start" (the running frame at most)
Starting(fn) == {j \in 1 .. Len(stack) : stack[j].fn = fn /\ stack[j].st = "start"}

StackWeight ==
    Len(stack)
      + 8 * Cardinality(Starting("parseAddSub"))
      + 6 * Cardinality(Starting("parseMulDiv"))
      + 4 * Cardinality(Starting("parsePercentage"))
      + 2 * Cardinality(Starting("parseUnary"))

\* the steps one consumed token pays for: the chain of calls that follows
\* the consume in parsePrimary's "(" branch
TokenWeight == 10

\* the steps of the parser on n tokens, starting in parseExpression
ParseSteps(n) == 2 + TokenWeight * n + FrameWeight(Frame("parseAddSub")) + 1

\* the steps of the lexer and the parser when the lexer is at index j of
\* an expression of n characters, with t tokens made
TokenizeSteps(n, j, t) == 1 + ParseSteps(t) + (TokenWeight + 1) * (n - j)

StepsAfterLength(e) ==
    IF LengthRejected(e) THEN 1 ELSE 2 + TokenizeSteps(Len(e), 0, 0)

StepsLeft ==
    CASE pc = "trim" -> 1 + StepsAfterLength(Trim(input))
      [] pc = "length" -> StepsAfterLength(expr)
      [] pc = "chars" -> 1 + TokenizeSteps(Len(expr), 0, 0)
      [] pc = "tokenize" -> TokenizeSteps(Len(expr), i, Len(tokens))
      [] pc = "parse" -> 2 + TokenWeight * (Len(tokens) - pos) + StackWeight
      [] pc \in {"finite", "catch"} -> 1
      [] OTHER -> 0

\* the most steps a call can take
MaxSteps == 3 + TokenizeSteps(MaxExprLen, 0, 0)

\* a step of the lexer's while loop that stays in the loop
LoopIteration == pc = "tokenize" /\ pc' = "tokenize"

\* a call out of the AddSub or MulDiv loop, of parseUnary by parseUnary, or
\* of parseAddSub by parsePrimary
RecursiveCall ==
    /\ Parsing
    /\ Len(stack') = Len(stack) + 1
    /\ \/ Top.fn \in {"parseAddSub", "parseMulDiv"} /\ Top.st \in {"left", "right"}
       \/ Top.fn = "parseUnary" /\ stack'[Len(stack')].fn = "parseUnary"
       \/ Top.fn = "parsePrimary"

\* the call has ended
Done == pc \in {"done", "uncaught"}

\* C12: every call ends.  Each iteration of the lexer's loop moves the scan
\* index forward; each iteration of the AddSub and MulDiv loops and each
\* recursive call of parseUnary, or of parseAddSub by parsePrimary, consumes
\* a token first; so the tokens are at most the characters, at most
\* MaxExprLen, the stack is at most five frames per consumed token deep,
\* every step lowers StepsLeft, which starts at MaxSteps or less, and a call
\* that has not ended can always take a step (the last is evaluated on the
\* named inputs and on all inputs shorter than MaxLen).
C12_Terminates ==
    /\ [][LoopIteration => i' > i]_vars
    /\ [][RecursiveCall => pos < Len(tokens) /\ pos' = pos + 1]_vars
    /\ [](pc \in {"tokenize", "parse"} =>
            /\ Len(tokens) <= i
            /\ i <= Len(expr)
            /\ Len(expr) <= MaxExprLen
            /\ pos <= Len(tokens)
            /\ Len(stack) <= 6 + 5 * pos)
    /\ [](StepsLeft >= 0 /\ StepsLeft <= MaxSteps)
    /\ [][StepsLeft' < StepsLeft]_vars
    /\ [](Len(input) # MaxLen => Done \/ ENABLED <<Next>>_vars)

\* 199 "(" and a number: 200 tokens, all consumed, 1000 frames deep
C12_Witness ==
    /\ pc = "parse"
    /\ Len(expr) = MaxExprLen
    /\ Len(tokens) = MaxExprLen
    /\ pos = MaxExprLen
    /\ Len(stack) = 5 * MaxExprLen

=============================================================================
